---- MODULE Spec2Model ----
(***************************************************************************)
(* Model of photometer_gamma_table.py: the interactive pipeline of main()  *)
(* (display listing, display selection, patch counts, the three external   *)
(* tools, the .ti3 parser, the gamma fit, the table files and the plot)    *)
(* and the pure estimator calculate_gamma.                                 *)
(*                                                                         *)
(* Numbers.  Python floats are modelled by exact rationals <<n, d>> with   *)
(* d > 0 in lowest terms.  All positive values of the model are powers of  *)
(* two, so that a natural logarithm is an integer multiple of ln 2 and the *)
(* least-squares slope, a ratio of two such quantities, is an exact        *)
(* rational.  "Within floating-point tolerance" is equality here.          *)
(***************************************************************************)
EXTENDS Integers, Sequences, FiniteSets, TLC

\* ------------------------------------------------------------------ bounds
MaxSamples == 3     \* longest sample sequence handed to calculate_gamma alone
MaxLevels == 2      \* most patch levels per channel ramp in a measurement file
MaxAttempts == 2    \* most rejected answers per interactive prompt

\* -------------------------------------------------------------- rationals
Abs(x) == IF x < 0 THEN -x ELSE x

RECURSIVE GCD(_, _)
GCD(a, b) == IF b = 0 THEN a ELSE GCD(b, a % b)

\* n / d as a float value, d # 0
Rat(n, d) ==
  LET g == GCD(Abs(n), Abs(d))
      s == IF d < 0 THEN -1 ELSE 1
  IN  <<(s * n) \div g, (s * d) \div g>>

RatZero == <<0, 1>>
RatPos(x) == x[1] > 0
RatLess(x, y) == x[1] * y[2] < y[1] * x[2]
RatDiv(x, y) == Rat(x[1] * y[2], x[2] * y[1])

\* log2 of a positive power of two n/d; ln(x) = Log2(x) * ln 2
RECURSIVE Log2(_, _)
Log2(n, d) ==
  IF n = d THEN 0
  ELSE IF n > d THEN 1 + Log2(n, 2 * d)
  ELSE Log2(2 * n, d) - 1

NpLog(x) == Log2(x[1], x[2])

RECURSIVE SumSeq(_)
SumSeq(s) == IF s = <<>> THEN 0 ELSE Head(s) + SumSeq(Tail(s))

\* ------------------------------------------------ calculate_gamma (67-89)
\* the values a gamma variable can hold; val is meaningful for kind "num"
PyNone == [kind |-> "None", val |-> RatZero]
PyNan == [kind |-> "nan", val |-> RatZero]
PyRaise == [kind |-> "ValueError", val |-> RatZero]
PyNum(x) == [kind |-> "num", val |-> x]

\* np.max(L) of a non-empty array
RECURSIVE NpMax(_)
NpMax(L) ==
  IF Len(L) = 1 THEN L[1]
  ELSE LET m == NpMax(Tail(L)) IN IF RatLess(m, L[1]) THEN L[1] ELSE m

\* L / np.max(L), elementwise; x / 0 is nan or -inf in numpy, with a warning only
Normalize(x, m) ==
  IF m[1] = 0
    THEN (IF x[1] = 0 THEN [kind |-> "nan", val |-> RatZero]
                      ELSE [kind |-> "-inf", val |-> RatZero])
    ELSE [kind |-> "num", val |-> RatDiv(x, m)]

\* mask = (V_in > 0) & (L_normalized > 0)
Mask(v, ln) == RatPos(v) /\ ln.kind = "num" /\ RatPos(ln.val)

RECURSIVE Select(_, _)
Select(s, keep) ==
  IF s = <<>> THEN <<>>
  ELSE IF Head(keep) THEN <<Head(s)>> \o Select(Tail(s), Tail(keep))
  ELSE Select(Tail(s), Tail(keep))

\* faulty variant of Linregress: the two arguments taken in the other order
LinregressSwapped(x, y) ==
  LET n == Len(x)
      sx == SumSeq(x)
      sy == SumSeq(y)
      sxy == SumSeq([i \in 1..n |-> x[i] * y[i]])
      syy == SumSeq([i \in 1..n |-> y[i] * y[i]])
      num == n * sxy - sx * sy
      den == n * syy - sy * sy
  IN  IF den = 0 THEN {PyRaise, PyNan} ELSE {PyNum(Rat(num, den))}

\* scipy.stats.linregress(x, y).slope for len(x) >= 2.  When all x are equal
\* the result depends on the installed scipy: newer versions raise
\* ValueError, older ones return nan.
Linregress(x, y) ==
  LET n == Len(x)
      sx == SumSeq(x)
      sy == SumSeq(y)
      sxy == SumSeq([i \in 1..n |-> x[i] * y[i]])
      sxx == SumSeq([i \in 1..n |-> x[i] * x[i]])
      num == n * sxy - sx * sy
      den == n * sxx - sx * sx
  IN  IF den = 0 THEN {PyRaise, PyNan} ELSE {PyNum(Rat(num, den))}

\* faulty variant of calculate_gamma: one remaining sample taken as enough
calculate_gamma_one(V_in, L) ==
  IF Len(L) = 0 THEN {PyRaise}
  ELSE
    LET m == NpMax(L)
        L_normalized == [i \in 1..Len(L) |-> Normalize(L[i], m)]
        mask == [i \in 1..Len(L) |-> Mask(V_in[i], L_normalized[i])]
        V == Select(V_in, mask)
        Ln == Select(L_normalized, mask)
    IN  IF Len(V) < 1 THEN {PyNone}
        ELSE LET x == [i \in 1..Len(V) |-> NpLog(V[i])]
                 y == [i \in 1..Len(V) |-> NpLog(Ln[i].val)]
                 n == Len(x)
                 num == n * SumSeq([i \in 1..n |-> x[i] * y[i]]) - SumSeq(x) * SumSeq(y)
                 den == n * SumSeq([i \in 1..n |-> x[i] * x[i]]) - SumSeq(x) * SumSeq(x)
             IN  IF den = 0 THEN {PyRaise, PyNan} ELSE {PyNum(Rat(num, den))}

\* the set of outcomes of calculate_gamma(V_in, L)
calculate_gamma(V_in, L) ==
  IF Len(L) = 0 THEN {PyRaise}   \* np.max of an empty array raises ValueError
  ELSE
    LET m == NpMax(L)
        L_normalized == [i \in 1..Len(L) |-> Normalize(L[i], m)]
        mask == [i \in 1..Len(L) |-> Mask(V_in[i], L_normalized[i])]
        V == Select(V_in, mask)
        Ln == Select(L_normalized, mask)
    IN  IF Len(V) < 2 THEN {PyNone}
        ELSE Linregress([i \in 1..Len(V) |-> NpLog(V[i])],
                        [i \in 1..Len(V) |-> NpLog(Ln[i].val)])

\* ------------------------------------------------- text the program parses
Digits == <<"0", "1", "2", "3", "4", "5", "6", "7", "8", "9">>
IsDigit(c) == \E i \in 1..10 : Digits[i] = c
DigitVal(c) == (CHOOSE i \in 1..10 : Digits[i] = c) - 1

\* str.strip(): leading and trailing blanks removed
RECURSIVE LStrip(_)
LStrip(s) == IF s # <<>> /\ Head(s) = " " THEN LStrip(Tail(s)) ELSE s
RECURSIVE RStrip(_)
RStrip(s) ==
  IF s # <<>> /\ s[Len(s)] = " " THEN RStrip(SubSeq(s, 1, Len(s) - 1)) ELSE s
Strip(s) == RStrip(LStrip(s))

\* the length of the longest prefix of s made of digits
RECURSIVE DigitRun(_)
DigitRun(s) == IF s # <<>> /\ IsDigit(Head(s)) THEN 1 + DigitRun(Tail(s)) ELSE 0

RECURSIVE DecValue(_)
DecValue(s) ==
  IF s = <<>> THEN 0 ELSE 10 * DecValue(SubSeq(s, 1, Len(s) - 1)) + DigitVal(s[Len(s)])

\* int(text): an optional sign and decimal digits, blanks around them ignored;
\* ok = FALSE stands for ValueError
ParseInt(text) ==
  LET t == Strip(text)
      signed == t # <<>> /\ Head(t) \in {"-", "+"}
      body == IF signed THEN Tail(t) ELSE t
  IN  IF body # <<>> /\ DigitRun(body) = Len(body)
        THEN [ok |-> TRUE,
              val |-> IF signed /\ Head(t) = "-" THEN -DecValue(body) ELSE DecValue(body)]
        ELSE [ok |-> FALSE, val |-> 0]

\* str.strip("'") of the description
RECURSIVE StripQuotes(_)
StripQuotes(s) ==
  IF s # <<>> /\ Head(s) = "'" THEN StripQuotes(Tail(s))
  ELSE IF s # <<>> /\ s[Len(s)] = "'" THEN StripQuotes(SubSeq(s, 1, Len(s) - 1))
  ELSE s

\* faulty variant of MatchDisplay: an empty description accepted, (.*) for (.+)
MatchDisplayAnyDesc(line) ==
  LET t == Strip(line)
      k == DigitRun(t)
      rest == LStrip(SubSeq(t, k + 1, Len(t)))
      desc == IF rest = <<>> THEN <<>> ELSE LStrip(Tail(rest))
  IN  IF k >= 1 /\ rest # <<>> /\ Head(rest) = "="
        THEN <<<<DecValue(SubSeq(t, 1, k)), StripQuotes(desc)>>>>
        ELSE <<>>

\* re.match(r'^(\d+)\s*=\s*(.+)$', line.strip()): <<>> when the line does not
\* match, else <<(display_num, display_desc)>>
MatchDisplay(line) ==
  LET t == Strip(line)
      k == DigitRun(t)
      rest == LStrip(SubSeq(t, k + 1, Len(t)))
      desc == IF rest = <<>> THEN <<>> ELSE LStrip(Tail(rest))
  IN  IF k >= 1 /\ rest # <<>> /\ Head(rest) = "=" /\ desc # <<>>
        THEN <<<<DecValue(SubSeq(t, 1, k)), StripQuotes(desc)>>>>
        ELSE <<>>

\* get_display_devices (19-27): the displays of the listing's lines, in order
RECURSIVE ParseDisplays(_)
ParseDisplays(output) ==
  IF output = <<>> THEN <<>>
  ELSE MatchDisplay(Head(output)) \o ParseDisplays(Tail(output))

\* ------------------------------------------------------- the .ti3 file
\* A line of the file after line.strip().split(): tok holds its words, num
\* the values float() gives its numerals.
Marker(name) == [tok |-> <<name>>, num |-> <<>>]
HeaderLine(names) == [tok |-> names, num |-> <<>>]
DataLine(values) == [tok |-> <<>>, num |-> values]

\* list.index(x), 1-based; 0 stands for ValueError
Index(s, x) ==
  IF \E i \in 1..Len(s) : s[i] = x
    THEN CHOOSE i \in 1..Len(s) : s[i] = x /\ \A j \in 1..(i - 1) : s[j] # x
    ELSE 0

\* the words of lines[from..to], concatenated (headers.extend)
RECURSIVE Headers(_, _, _)
Headers(ls, from, to) ==
  IF from > to \/ from > Len(ls) THEN <<>>
  ELSE ls[from].tok \o Headers(ls, from + 1, to)

SeqMax(s) == CHOOSE m \in {s[i] : i \in 1..Len(s)} : \A i \in 1..Len(s) : s[i] <= m

\* faulty variant of Locate: a missing END_DATA taken as the end of the file
LocateToEnd(ls) ==
  LET bf == Index(ls, Marker("BEGIN_DATA_FORMAT"))
      ef == Index(ls, Marker("END_DATA_FORMAT"))
      headers == Headers(ls, bf + 1, ef - 1)
      r == Index(headers, "RGB_R")
      g == Index(headers, "RGB_G")
      b == Index(headers, "RGB_B")
      y == Index(headers, "XYZ_Y")
      bd == Index(ls, Marker("BEGIN_DATA"))
      ed == Index(ls, Marker("END_DATA"))
  IN  [found |-> bf # 0 /\ ef # 0 /\ r # 0 /\ g # 0 /\ b # 0 /\ y # 0 /\ bd # 0,
       device_rgb_index |-> <<r, g, b>>,
       luminance_index |-> y,
       begin_data |-> bd + 1,
       end_data |-> IF ed = 0 THEN Len(ls) + 1 ELSE ed]

\* lines 142-157: the positions found in the file, found = FALSE when a
\* list.index raises ValueError.  Positions are 1-based: begin_data is the
\* first data line and end_data the END_DATA line (the slice excludes it).
Locate(ls) ==
  LET bf == Index(ls, Marker("BEGIN_DATA_FORMAT"))
      ef == Index(ls, Marker("END_DATA_FORMAT"))
      headers == Headers(ls, bf + 1, ef - 1)
      r == Index(headers, "RGB_R")
      g == Index(headers, "RGB_G")
      b == Index(headers, "RGB_B")
      y == Index(headers, "XYZ_Y")
      bd == Index(ls, Marker("BEGIN_DATA"))
      ed == Index(ls, Marker("END_DATA"))
  IN  [found |-> bf # 0 /\ ef # 0 /\ r # 0 /\ g # 0 /\ b # 0 /\ y # 0
                 /\ bd # 0 /\ ed # 0,
       device_rgb_index |-> <<r, g, b>>,
       luminance_index |-> y,
       begin_data |-> bd + 1,
       end_data |-> ed]

\* line 168: len(data) < max(device_rgb_index + [luminance_index]) + 1, with
\* 1-based column positions
Incomplete(data, rgb_index, lum_index) ==
  Len(data) < SeqMax(rgb_index \o <<lum_index>>)

\* faulty variant of Classify: a lit channel tested with != 0 for > 0
ClassifyNonzero(device_r, device_g, device_b, gray, color) ==
  IF device_r = device_g /\ device_g = device_b /\ gray > 0 THEN "Gray"
  ELSE IF device_r # 0 /\ device_g = 0 /\ device_b = 0 /\ color > 0 THEN "R"
  ELSE IF device_g # 0 /\ device_r = 0 /\ device_b = 0 /\ color > 0 THEN "G"
  ELSE IF device_b # 0 /\ device_r = 0 /\ device_g = 0 /\ color > 0 THEN "B"
  ELSE "skip"

\* faulty variant of Classify: the red branch without `and num_color > 0`
ClassifyUnrequested(device_r, device_g, device_b, gray, color) ==
  IF device_r = device_g /\ device_g = device_b /\ gray > 0 THEN "Gray"
  ELSE IF device_r > 0 /\ device_g = 0 /\ device_b = 0 THEN "R"
  ELSE IF device_g > 0 /\ device_r = 0 /\ device_b = 0 /\ color > 0 THEN "G"
  ELSE IF device_b > 0 /\ device_r = 0 /\ device_g = 0 /\ color > 0 THEN "B"
  ELSE "skip"

\* lines 185-202: the bucket a complete row goes to
Classify(device_r, device_g, device_b, gray, color) ==
  IF device_r = device_g /\ device_g = device_b /\ gray > 0 THEN "Gray"
  ELSE IF device_r > 0 /\ device_g = 0 /\ device_b = 0 /\ color > 0 THEN "R"
  ELSE IF device_g > 0 /\ device_r = 0 /\ device_b = 0 /\ color > 0 THEN "G"
  ELSE IF device_b > 0 /\ device_r = 0 /\ device_g = 0 /\ color > 0 THEN "B"
  ELSE "skip"

\* lines 187, 191, 195, 199: the normalized input stored with the sample
StoredInput(bucket, device_r, device_g, device_b) ==
  CASE bucket = "Gray" -> Rat(device_r, 100)
    [] bucket = "R" -> Rat(device_r, 100)
    [] bucket = "G" -> Rat(device_g, 100)
    [] bucket = "B" -> Rat(device_b, 100)

\* truthiness of a gamma value: None and 0.0 are false, nan is true
Truthy(gamma) == gamma.kind = "nan" \/ (gamma.kind = "num" /\ gamma.val[1] # 0)

\* lines 120-124
TargenCmd(gray, color, display) ==
  <<<<"targen", 0>>, <<"-v", 0>>, <<"-d", 3>>, <<"-f", 0>>>>
  \o (IF gray > 0 THEN <<<<"-g", gray>>>> ELSE <<>>)
  \o (IF color > 0 THEN <<<<"-s", color>>>> ELSE <<>>)
  \o <<<<"base_name", display>>>>

\* line 128
DispwinCmd(display) == <<<<"dispwin", 0>>, <<"-d", display>>, <<"-c", 0>>>>

\* line 132
DispreadCmd(display) ==
  <<<<"dispread", 0>>, <<"-v", 0>>, <<"-yl", 0>>, <<"-d", display>>,
    <<"base_name", display>>>>

\* ------------------------------------------------------------------ state
VARIABLES
  pc,              \* where main() is
  exit_code,       \* "running", 0, 1 (sys.exit(1)) or "ValueError" (traceback)
  rejected,        \* answers the current prompt has rejected
  listing,         \* the lines `dispwin -?` printed
  displays,        \* get_display_devices()
  display_number,  \* 0 until select_display_device returns
  output_dir,      \* TRUE once output_dir.mkdir ran
  gray_answer,     \* int() of the first answer inside get_patch_counts
  num_gray, num_color,
  invoked,         \* the external commands run so far, with their exit status
  ti3,             \* the lines of <base_name>.ti3 on disk
  lines,           \* f.readlines()
  device_rgb_index, luminance_index, begin_data, end_data,
  row,             \* the position of the data line the loop of 166 is at
  V_in_R, L_R, V_in_G, L_G, V_in_B, L_B, V_in_Gray, L_Gray,
  gamma_R, gamma_G, gamma_B, gamma_Gray,
  called,          \* the channels calculate_gamma was called for
  written,         \* the table files written
  plot,            \* TRUE once <base_name>.png is saved
  g_V, g_L, g_result, g_pc   \* calculate_gamma called on its own

gvars == <<g_V, g_L, g_result, g_pc>>
uivars == <<rejected, listing, displays, display_number, output_dir, gray_answer,
            num_gray, num_color>>
filevars == <<lines, device_rgb_index, luminance_index, begin_data, end_data, row>>
buckets == <<V_in_R, L_R, V_in_G, L_G, V_in_B, L_B, V_in_Gray, L_Gray>>
gammas == <<gamma_R, gamma_G, gamma_B, gamma_Gray, called>>
outvars == <<written, plot>>
mainvars == <<pc, exit_code, uivars, invoked, ti3, filevars, buckets, gammas, outvars>>
vars == <<mainvars, gvars>>

\* ------------------------------------------------------------- the inputs
\* lines `dispwin -?` may print
UsageLine == <<"u", "s", "a", "g", "e">>
DisplayLine1 == <<" ", "1", " ", "=", " ", "'", "A", "'">>
DisplayLine2 == <<"2", "=", "B">>
NoDescLine == <<"3", " ", "=", " ">>
NoNumberLine == <<"=", " ", "C">>

DispwinOutputs ==
  { <<>>, <<UsageLine>>, <<UsageLine, NoDescLine, NoNumberLine>>,
    <<UsageLine, DisplayLine1>>, <<DisplayLine1, UsageLine, DisplayLine2>> }

\* answers typed at a prompt
Answers ==
  { <<>>, <<"x">>, <<"-", "1">>, <<"0">>, <<" ", "1">>, <<"2">>, <<"1", ".", "5">> }

ExitStatuses == {0, 1}

\* the columns of a measurement file as dispread writes them
FullLayout == <<"SAMPLE_ID", "RGB_R", "RGB_G", "RGB_B", "XYZ_X", "XYZ_Y", "XYZ_Z">>
\* another order of the columns
ShortLayout == <<"XYZ_Y", "RGB_B", "RGB_G", "RGB_R">>
RequiredColumns == {"RGB_R", "RGB_G", "RGB_B", "XYZ_Y"}
AllMarkers == {"BEGIN_DATA_FORMAT", "END_DATA_FORMAT", "BEGIN_DATA", "END_DATA"}

Without(layout, name) == SelectSeq(layout, LAMBDA c : c # name)

\* the values of a data row under a layout
RowValues(layout, r, g, b, y) ==
  [j \in 1..Len(layout) |->
     CASE layout[j] = "RGB_R" -> r
       [] layout[j] = "RGB_G" -> g
       [] layout[j] = "RGB_B" -> b
       [] layout[j] = "XYZ_Y" -> y
       [] OTHER -> 1]

Opt(present, line) == IF present THEN <<line>> ELSE <<>>

\* a file with the given marker lines, header and data rows (each <<r, g, b, Y>>
\* or, cut short, <<r, g, b, Y, number of fields kept>>)
MkFile(markers, layout, rows) ==
  <<Marker("CTI3")>>
  \o Opt("BEGIN_DATA_FORMAT" \in markers, Marker("BEGIN_DATA_FORMAT"))
  \o <<HeaderLine(layout)>>
  \o Opt("END_DATA_FORMAT" \in markers, Marker("END_DATA_FORMAT"))
  \o Opt("BEGIN_DATA" \in markers, Marker("BEGIN_DATA"))
  \o [k \in 1..Len(rows) |->
        LET v == RowValues(layout, rows[k][1], rows[k][2], rows[k][3], rows[k][4])
        IN  DataLine(IF Len(rows[k]) = 5 /\ rows[k][5] < Len(v)
                       THEN SubSeq(v, 1, rows[k][5]) ELSE v)]
  \o Opt("END_DATA" \in markers, Marker("END_DATA"))

\* the measured luminance of level k of a ramp on a display of exponent g:
\* level k drives the channel at 100 / 2^(k-1)
Level(k) == 100 \div (2 ^ (k - 1))
Lum(k, g) == 2 ^ (8 - g * (k - 1))
Ramp(channel, n, g) ==
  [k \in 1..n |->
     CASE channel = "Gray" -> <<Level(k), Level(k), Level(k), Lum(k, g)>>
       [] channel = "R" -> <<Level(k), 0, 0, Lum(k, g)>>
       [] channel = "G" -> <<0, Level(k), 0, Lum(k, g)>>
       [] channel = "B" -> <<0, 0, Level(k), Lum(k, g)>>]

Exponents == {0, 2}

\* rows a file may hold besides the ramps
ExtraRows ==
  { <<>>,
    << <<0, 0, 0, 0>> >>,              \* a black patch
    << <<30, 40, 0, 64>> >>,           \* a mixed patch
    << <<-50, 0, 0, 64>> >>,           \* a negative device value
    << <<-50, -50, -50, 64>> >>,
    << <<50, 50, 50, 64, 3>> >>,       \* too few fields under either layout
    << <<0, 50, 0, 64, 6>> >>,         \* the last column missing
    << <<100, 100, 100, 256>> >> }     \* a patch measured twice

RowLists ==
  { x \o Ramp("Gray", ng, g) \o Ramp("R", nr, g) \o Ramp("G", ngr, g) \o Ramp("B", nb, g) :
      x \in ExtraRows, ng \in 0..MaxLevels, nr \in 0..MaxLevels,
      ngr \in 0..MaxLevels, nb \in 0..MaxLevels, g \in Exponents }

SampleRows == Ramp("Gray", 2, 2) \o Ramp("R", 1, 2)

\* files with every marker and column
GoodFiles == { MkFile(AllMarkers, l, rows) : l \in {FullLayout, ShortLayout}, rows \in RowLists }
\* files lacking a marker line or a column
BadFiles ==
  { MkFile(AllMarkers \ {m}, FullLayout, SampleRows) : m \in AllMarkers }
  \cup { MkFile(AllMarkers, Without(FullLayout, c), SampleRows) : c \in RequiredColumns }
  \cup { MkFile({}, FullLayout, SampleRows) }
Files == GoodFiles \cup BadFiles

\* the files the whole pipeline is run on
PipelineRows ==
  { <<>>, SampleRows,
    << <<-50, 0, 0, 64>>, <<50, 50, 50, 64, 3>>, <<30, 40, 0, 64>> >> \o Ramp("Gray", 2, 0),
    Ramp("R", 2, 2) \o Ramp("G", 2, 2) \o Ramp("B", 2, 2),
    Ramp("R", 2, 2) \o Ramp("G", 2, 2) \o Ramp("B", 1, 2),
    << <<100, 100, 100, 256>> >> \o Ramp("Gray", 1, 2) }
PipelineFiles ==
  { MkFile(AllMarkers, FullLayout, rows) : rows \in PipelineRows } \cup BadFiles

NoFile == <<>>

\* ---------------------------------------------------------------- main()
ListCmd == <<<<"dispwin", 0>>, <<"-?", 0>>>>
Ran(cmd, rc) == [argv |-> cmd, rc |-> rc]

InitMainVars(start) ==
  /\ pc = start
  /\ exit_code = "running"
  /\ rejected = 0
  /\ listing = <<>>
  /\ displays = <<>>
  /\ display_number = 0
  /\ output_dir = FALSE
  /\ gray_answer = 0
  /\ num_gray = 0
  /\ num_color = 0
  /\ invoked = <<>>
  /\ ti3 = NoFile

InitFileVars ==
  /\ lines = <<>>
  /\ device_rgb_index = <<0, 0, 0>>
  /\ luminance_index = 0
  /\ begin_data = 0
  /\ end_data = 0
  /\ row = 0
  /\ V_in_R = <<>> /\ L_R = <<>>
  /\ V_in_G = <<>> /\ L_G = <<>>
  /\ V_in_B = <<>> /\ L_B = <<>>
  /\ V_in_Gray = <<>> /\ L_Gray = <<>>
  /\ gamma_R = PyNone /\ gamma_G = PyNone /\ gamma_B = PyNone /\ gamma_Gray = PyNone
  /\ called = {}
  /\ written = {}
  /\ plot = FALSE

IdleGamma ==
  /\ g_V = <<>>
  /\ g_L = <<>>
  /\ g_result = PyNone
  /\ g_pc = "idle"

Init == InitMainVars("base_name") /\ InitFileVars /\ IdleGamma

\* sys.exit(1), or a traceback for an exception nothing catches
Exit(code) == pc' = "exited" /\ exit_code' = code

\* line 96
EnterBaseName ==
  /\ pc = "base_name"
  /\ pc' = "list_displays"
  /\ UNCHANGED <<exit_code, uivars, invoked, ti3, filevars, buckets, gammas, outvars, gvars>>

\* lines 99-102: get_display_devices runs the listing without check=True and
\* reads its output whatever its exit status
GetDisplayDevices ==
  /\ pc = "list_displays"
  /\ \E out \in DispwinOutputs, rc \in ExitStatuses :
       /\ invoked' = Append(invoked, Ran(ListCmd, rc))
       /\ listing' = out
       /\ displays' = ParseDisplays(out)
       /\ IF ParseDisplays(out) = <<>>
            THEN Exit("1")
            ELSE pc' = "select_display" /\ exit_code' = exit_code
  /\ UNCHANGED <<rejected, display_number, output_dir, gray_answer, num_gray, num_color,
                 ti3, filevars, buckets, gammas, outvars, gvars>>

\* lines 103-113: select_display_device, then the working directory
SelectDisplay ==
  /\ pc = "select_display"
  /\ \E answer \in Answers :
       LET choice == ParseInt(answer) IN
       IF choice.ok /\ 1 <= choice.val /\ choice.val <= Len(displays)
         THEN /\ display_number' = displays[choice.val][1]
              /\ output_dir' = TRUE
              /\ rejected' = 0
              /\ pc' = "ask_gray"
         ELSE /\ rejected < MaxAttempts
              /\ rejected' = rejected + 1
              /\ UNCHANGED <<display_number, output_dir, pc>>
  /\ UNCHANGED <<exit_code, listing, displays, gray_answer, num_gray, num_color, invoked, ti3,
                 filevars, buckets, gammas, outvars, gvars>>

\* faulty variant of AcceptCounts: the test of 49-51 left out
AcceptCountsNonNegative(gray, color) == gray >= 0 /\ color >= 0

\* lines 48-52: the pair get_patch_counts returns
AcceptCounts(gray, color) ==
  gray >= 0 /\ color >= 0 /\ ~(gray = 0 /\ color = 0)

\* line 46: the first answer of a round of get_patch_counts
AskGray ==
  /\ pc = "ask_gray"
  /\ \E answer \in Answers :
       LET n == ParseInt(answer) IN
       IF n.ok
         THEN gray_answer' = n.val /\ pc' = "ask_color" /\ rejected' = rejected
         ELSE /\ rejected < MaxAttempts
              /\ rejected' = rejected + 1
              /\ UNCHANGED <<gray_answer, pc>>
  /\ UNCHANGED <<exit_code, listing, displays, display_number, output_dir, num_gray, num_color,
                 invoked, ti3, filevars, buckets, gammas, outvars, gvars>>

\* lines 47-56: the second answer; the round is accepted or starts again
AskColor ==
  /\ pc = "ask_color"
  /\ \E answer \in Answers :
       LET n == ParseInt(answer) IN
       IF n.ok /\ AcceptCounts(gray_answer, n.val)
         THEN /\ num_gray' = gray_answer
              /\ num_color' = n.val
              /\ rejected' = rejected
              /\ pc' = "targen"
         ELSE /\ rejected < MaxAttempts
              /\ rejected' = rejected + 1
              /\ pc' = "ask_gray"
              /\ UNCHANGED <<num_gray, num_color>>
  /\ UNCHANGED <<exit_code, listing, displays, display_number, output_dir, gray_answer,
                 invoked, ti3, filevars, buckets, gammas, outvars, gvars>>

\* faulty variant of run_command: subprocess.run without check=True
run_command_unchecked(cmd, rc, next) ==
  /\ invoked' = Append(invoked, Ran(cmd, rc))
  /\ pc' = next /\ exit_code' = exit_code

\* run_command (58-65): the command runs; a nonzero status is sys.exit(1)
run_command(cmd, rc, next) ==
  /\ invoked' = Append(invoked, Ran(cmd, rc))
  /\ IF rc # 0 THEN Exit("1") ELSE pc' = next /\ exit_code' = exit_code

\* lines 119-125
GenerateTestPatches ==
  /\ pc = "targen"
  /\ \E rc \in ExitStatuses :
       run_command(TargenCmd(num_gray, num_color, display_number), rc, "dispwin")
  /\ UNCHANGED <<uivars, ti3, filevars, buckets, gammas, outvars, gvars>>

\* lines 128-129
SetDisplayLinear ==
  /\ pc = "dispwin"
  /\ \E rc \in ExitStatuses : run_command(DispwinCmd(display_number), rc, "dispread")
  /\ UNCHANGED <<uivars, ti3, filevars, buckets, gammas, outvars, gvars>>

\* lines 132-133: a successful dispread leaves the measurement file
MeasurePatches ==
  /\ pc = "dispread"
  /\ \E rc \in ExitStatuses :
       /\ run_command(DispreadCmd(display_number), rc, "read")
       /\ IF rc = 0 THEN ti3' \in PipelineFiles ELSE ti3' = ti3
  /\ UNCHANGED <<uivars, filevars, buckets, gammas, outvars, gvars>>

\* lines 136-163: the file is read and its sections located
ReadFile ==
  /\ pc = "read"
  /\ lines' = ti3
  /\ LET at == Locate(ti3) IN
       IF at.found
         THEN /\ device_rgb_index' = at.device_rgb_index
              /\ luminance_index' = at.luminance_index
              /\ begin_data' = at.begin_data
              /\ end_data' = at.end_data
              /\ row' = at.begin_data
              /\ pc' = "parse"
              /\ exit_code' = exit_code
         ELSE /\ Exit("ValueError")
              /\ UNCHANGED <<device_rgb_index, luminance_index, begin_data, end_data, row>>
  /\ UNCHANGED <<uivars, invoked, ti3, buckets, gammas, outvars, gvars>>

\* lines 166-202: one data line
ParseRow ==
  /\ pc = "parse"
  /\ row < end_data
  /\ row' = row + 1
  /\ LET data == lines[row].num IN
       IF Incomplete(data, device_rgb_index, luminance_index)
         THEN UNCHANGED buckets
         ELSE
           LET device_r == data[device_rgb_index[1]]
               device_g == data[device_rgb_index[2]]
               device_b == data[device_rgb_index[3]]
               Y == Rat(data[luminance_index], 1)
               to == Classify(device_r, device_g, device_b, num_gray, num_color)
               V == StoredInput(to, device_r, device_g, device_b)
           IN  /\ IF to = "Gray"
                    THEN V_in_Gray' = Append(V_in_Gray, V) /\ L_Gray' = Append(L_Gray, Y)
                    ELSE UNCHANGED <<V_in_Gray, L_Gray>>
               /\ IF to = "R"
                    THEN V_in_R' = Append(V_in_R, V) /\ L_R' = Append(L_R, Y)
                    ELSE UNCHANGED <<V_in_R, L_R>>
               /\ IF to = "G"
                    THEN V_in_G' = Append(V_in_G, V) /\ L_G' = Append(L_G, Y)
                    ELSE UNCHANGED <<V_in_G, L_G>>
               /\ IF to = "B"
                    THEN V_in_B' = Append(V_in_B, V) /\ L_B' = Append(L_B, Y)
                    ELSE UNCHANGED <<V_in_B, L_B>>
  /\ UNCHANGED <<pc, exit_code, uivars, invoked, ti3, lines, device_rgb_index,
                 luminance_index, begin_data, end_data, gammas, outvars, gvars>>

\* `calculate_gamma(V, L) if V else None`
Estimate(V, L) == IF V = <<>> THEN {PyNone} ELSE calculate_gamma(V, L)

\* lines 205-208, once the loop is over: the four estimates in turn; an
\* exception in one ends the run before the next
CalculateGammas ==
  /\ pc = "parse"
  /\ row >= end_data
  /\ \E oR \in Estimate(V_in_R, L_R), oG \in Estimate(V_in_G, L_G),
        oB \in Estimate(V_in_B, L_B), oGray \in Estimate(V_in_Gray, L_Gray) :
       LET okR == oR.kind # "ValueError"
           okG == okR /\ oG.kind # "ValueError"
           okB == okG /\ oB.kind # "ValueError"
           okGray == okB /\ oGray.kind # "ValueError"
       IN  /\ gamma_R' = IF okR THEN oR ELSE gamma_R
           /\ gamma_G' = IF okG THEN oG ELSE gamma_G
           /\ gamma_B' = IF okB THEN oB ELSE gamma_B
           /\ gamma_Gray' = IF okGray THEN oGray ELSE gamma_Gray
           /\ called' = (IF V_in_R # <<>> THEN {"R"} ELSE {})
                        \cup (IF okR /\ V_in_G # <<>> THEN {"G"} ELSE {})
                        \cup (IF okG /\ V_in_B # <<>> THEN {"B"} ELSE {})
                        \cup (IF okB /\ V_in_Gray # <<>> THEN {"Gray"} ELSE {})
           /\ IF okGray THEN pc' = "tables" /\ exit_code' = exit_code
                        ELSE Exit("ValueError")
  /\ UNCHANGED <<uivars, invoked, ti3, filevars, buckets, outvars, gvars>>

\* faulty variant of WritesRGB: the blue estimate not looked at
WritesRGBTwo(gR, gG, gB) == Truthy(gR) /\ Truthy(gG)

\* lines 229, 241: the conditions under which each table is written
WritesRGB(gR, gG, gB) == Truthy(gR) /\ Truthy(gG) /\ Truthy(gB)
WritesGray(gGray) == Truthy(gGray)

\* lines 220-248
GenerateGammaTables ==
  /\ pc = "tables"
  /\ written' = (IF WritesRGB(gamma_R, gamma_G, gamma_B) THEN {"gamma_table_RGB"} ELSE {})
                \cup (IF WritesGray(gamma_Gray) THEN {"gamma_table_Gray"} ELSE {})
  /\ pc' = "plot"
  /\ UNCHANGED <<exit_code, uivars, invoked, ti3, filevars, buckets, gammas, plot, gvars>>

\* lines 251-272, and the normal end of the run
PlotGammaCurves ==
  /\ pc = "plot"
  /\ plot' = TRUE
  /\ pc' = "exited"
  /\ exit_code' = "0"
  /\ UNCHANGED <<uivars, invoked, ti3, filevars, buckets, gammas, written, gvars>>

Next ==
  \/ EnterBaseName
  \/ GetDisplayDevices
  \/ SelectDisplay
  \/ AskGray
  \/ AskColor
  \/ GenerateTestPatches
  \/ SetDisplayLinear
  \/ MeasurePatches
  \/ ReadFile
  \/ ParseRow
  \/ CalculateGammas
  \/ GenerateGammaTables
  \/ PlotGammaCurves

Spec == Init /\ [][Next]_vars

\* ---------------------------------------- the run from the measurement file on
\* The state main() is in when dispread has returned 0: a display chosen, an
\* accepted pair of patch counts, the three tools run, any file on disk.
InitParse ==
  /\ pc = "read"
  /\ exit_code = "running"
  /\ rejected = 0
  /\ listing = <<UsageLine, DisplayLine1>>
  /\ displays = ParseDisplays(<<UsageLine, DisplayLine1>>)
  /\ display_number = 1
  /\ output_dir = TRUE
  /\ \E counts \in {<<0, 2>>, <<2, 0>>, <<2, 2>>} :
       /\ gray_answer = counts[1]
       /\ num_gray = counts[1]
       /\ num_color = counts[2]
       /\ invoked = << Ran(ListCmd, 0), Ran(TargenCmd(counts[1], counts[2], 1), 0),
                       Ran(DispwinCmd(1), 0), Ran(DispreadCmd(1), 0) >>
  /\ ti3 \in Files
  /\ InitFileVars
  /\ IdleGamma

NextParse ==
  \/ ReadFile
  \/ ParseRow
  \/ CalculateGammas
  \/ GenerateGammaTables
  \/ PlotGammaCurves

SpecParse == InitParse /\ [][NextParse]_vars

\* ------------------------------------------------ calculate_gamma on its own
\* inputs and luminances offered to the estimator
GammaInputs == {Rat(0, 1), Rat(1, 4), Rat(1, 2), Rat(1, 1)}
GammaLums == {Rat(0, 1), Rat(1, 4), Rat(1, 2), Rat(1, 1)}

InitGamma ==
  /\ InitMainVars("idle")
  /\ InitFileVars
  /\ \E n \in 0..MaxSamples : \E s \in [1..n -> GammaInputs \X GammaLums] :
       /\ g_V = [i \in 1..n |-> s[i][1]]
       /\ g_L = [i \in 1..n |-> s[i][2]]
  /\ g_result = PyNone
  /\ g_pc = "call"

CallCalculateGamma ==
  /\ g_pc = "call"
  /\ g_result' \in calculate_gamma(g_V, g_L)
  /\ g_pc' = "returned"
  /\ UNCHANGED <<g_V, g_L, mainvars>>

NextGamma == CallCalculateGamma

SpecGamma == InitGamma /\ [][NextGamma]_vars

\* ================================================================== claims
\* ---- what the claims speak of, stated without the program's own operators
AllSamples == 1..Len(g_V)
\* the largest luminance handed to the estimator
MaxLum == CHOOSE m \in {g_L[i] : i \in AllSamples} : \A i \in AllSamples : ~RatLess(m, g_L[i])
\* a valid pair: input > 0 and luminance / maximum luminance > 0
ValidPair(i) ==
  /\ g_V[i][1] > 0
  /\ MaxLum[1] # 0
  /\ g_L[i][1] * MaxLum[1] > 0
ValidPairs == {i \in AllSamples : ValidPair(i)}

\* C2 (as amended): calculate_gamma called on a non-empty sequence with fewer
\* than 2 valid pairs returns None, and does not raise.
C2_FewValidReturnsNone ==
  (g_pc = "returned" /\ Len(g_V) >= 1 /\ Cardinality(ValidPairs) < 2)
    => g_result = PyNone

\* C2 (as stated): the same for every sequence, the empty one included.
C2_AsStated ==
  (g_pc = "returned" /\ (Len(g_V) = 0 \/ Cardinality(ValidPairs) < 2))
    => g_result = PyNone

\* a call on three samples of which exactly one is valid returned None
C2_Witness ==
  /\ g_pc = "returned"
  /\ Len(g_V) = 3
  /\ Cardinality(ValidPairs) = 1
  /\ \E i \in AllSamples : g_V[i][1] = 0
  /\ \E i \in AllSamples : g_L[i][1] = 0
  /\ g_result = PyNone

\* exponents g0 = p/q of the power laws the samples may lie on
PowerLaws == {Rat(0, 1), Rat(1, 2), Rat(1, 1), Rat(2, 1)}
\* sample i lies exactly on L = V^g0 (0^0 = 1, 0^g0 = 0 otherwise)
OnLaw(i, g0) ==
  IF g_V[i][1] = 0
    THEN g_L[i] = (IF g0[1] = 0 THEN Rat(1, 1) ELSE Rat(0, 1))
    ELSE g_L[i][1] > 0 /\ g0[2] * NpLog(g_L[i]) = g0[1] * NpLog(g_V[i])
LiesOnLaw(g0) == \A i \in AllSamples : OnLaw(i, g0)
DistinctValidInputs == {g_V[i] : i \in ValidPairs}

\* C9 (as amended): when the samples lie exactly on L = V^g0 and at least two
\* valid samples have different inputs, calculate_gamma returns g0.
C9_RecoversExponent ==
  \A g0 \in PowerLaws :
    (g_pc = "returned" /\ LiesOnLaw(g0) /\ Cardinality(DistinctValidInputs) >= 2)
      => g_result = PyNum(g0)

\* C9 (as stated): the same for any two valid samples on the law.
C9_AsStated ==
  \A g0 \in PowerLaws :
    (g_pc = "returned" /\ LiesOnLaw(g0) /\ Cardinality(ValidPairs) >= 2)
      => g_result = PyNum(g0)

\* the estimator returned 2 for three samples on L = V^2, a black one among them
C9_Witness ==
  /\ g_pc = "returned"
  /\ Len(g_V) = 3
  /\ LiesOnLaw(Rat(2, 1))
  /\ Cardinality(DistinctValidInputs) = 2
  /\ \E i \in AllSamples : g_V[i][1] = 0
  /\ g_result = PyNum(Rat(2, 1))

\* ---- the measurement file, as the claims describe it
\* the column names of the file's header section
FileHeader(f) ==
  IF \E i \in 1..Len(f) : Len(f[i].tok) > 1
    THEN f[CHOOSE i \in 1..Len(f) : Len(f[i].tok) > 1].tok
    ELSE <<>>
ColumnOf(f, name) == CHOOSE j \in 1..Len(FileHeader(f)) : FileHeader(f)[j] = name
HasLine(f, name) == \E i \in 1..Len(f) : f[i] = Marker(name)
HasColumn(f, name) == \E j \in 1..Len(FileHeader(f)) : FileHeader(f)[j] = name
WellFormed(f) ==
  /\ \A m \in AllMarkers : HasLine(f, m)
  /\ \A c \in RequiredColumns : HasColumn(f, c)
\* the largest required column index + 1
FieldsRequired(f) ==
  CHOOSE n \in {ColumnOf(f, c) : c \in RequiredColumns} :
    \A c \in RequiredColumns : ColumnOf(f, c) <= n
\* the data line the parser is at, and the values of its columns
AtRow == pc = "parse" /\ row < end_data
RowData == lines[row].num
EnoughFields == Len(RowData) >= FieldsRequired(lines)
DevR == RowData[ColumnOf(lines, "RGB_R")]
DevG == RowData[ColumnOf(lines, "RGB_G")]
DevB == RowData[ColumnOf(lines, "RGB_B")]
LumY == RowData[ColumnOf(lines, "XYZ_Y")]

Sample(device, lum) == <<Rat(device, 100), Rat(lum, 1)>>
\* bucket (V, L) gained exactly the sample s / was left as it was
Gains(V, L, Vn, Ln, s) == Vn = Append(V, s[1]) /\ Ln = Append(L, s[2])
Kept(V, L, Vn, Ln) == Vn = V /\ Ln = L

\* the bucket the rules of the parser's contract give the row, with "one
\* channel lit" read as nonzero (the statement) or as positive (the code)
RuleBucket(litR, litG, litB) ==
  IF DevR = DevG /\ DevG = DevB /\ num_gray > 0 THEN "Gray"
  ELSE IF num_color > 0 /\ litR /\ DevG = 0 /\ DevB = 0 THEN "R"
  ELSE IF num_color > 0 /\ litG /\ DevR = 0 /\ DevB = 0 THEN "G"
  ELSE IF num_color > 0 /\ litB /\ DevR = 0 /\ DevG = 0 THEN "B"
  ELSE "discarded"
BucketIfNonzero == RuleBucket(DevR # 0, DevG # 0, DevB # 0)
BucketIfPositive == RuleBucket(DevR > 0, DevG > 0, DevB > 0)

\* what the step does to the buckets when the row belongs to bucket b
RowGoesTo(b) ==
  /\ IF b = "Gray" THEN Gains(V_in_Gray, L_Gray, V_in_Gray', L_Gray', Sample(DevR, LumY))
                   ELSE Kept(V_in_Gray, L_Gray, V_in_Gray', L_Gray')
  /\ IF b = "R" THEN Gains(V_in_R, L_R, V_in_R', L_R', Sample(DevR, LumY))
                ELSE Kept(V_in_R, L_R, V_in_R', L_R')
  /\ IF b = "G" THEN Gains(V_in_G, L_G, V_in_G', L_G', Sample(DevG, LumY))
                ELSE Kept(V_in_G, L_G, V_in_G', L_G')
  /\ IF b = "B" THEN Gains(V_in_B, L_B, V_in_B', L_B', Sample(DevB, LumY))
                ELSE Kept(V_in_B, L_B, V_in_B', L_B')

\* a sample entered R, G or B only from a row with the other two channels at
\* zero, and Gray only from a row with three equal channels
BucketsPure ==
  /\ V_in_R' # V_in_R => (DevG = 0 /\ DevB = 0)
  /\ V_in_G' # V_in_G => (DevR = 0 /\ DevB = 0)
  /\ V_in_B' # V_in_B => (DevR = 0 /\ DevG = 0)
  /\ V_in_Gray' # V_in_Gray => (DevR = DevG /\ DevG = DevB)

\* C1 (as amended): a row with enough fields goes to Gray when its three
\* device values are equal and grayscale was requested; otherwise to R, G or
\* B when that channel is positive, the other two are zero and color was
\* requested; otherwise nowhere.  In each case to that one bucket only, keyed
\* on the value divided by 100.
C1_RowClassified ==
  [][(AtRow /\ EnoughFields) => (RowGoesTo(BucketIfPositive) /\ BucketsPure)]_vars

\* C1 (as stated): "exactly one device channel is nonzero".
C1_AsStated ==
  [][(AtRow /\ EnoughFields) => (RowGoesTo(BucketIfNonzero) /\ BucketsPure)]_vars

Parsed(k) == begin_data <= k /\ k < row
\* both kinds requested; the file's rows all parsed, a red and a gray one
\* bucketed, and a row with one negative channel bucketed nowhere
C1_Witness ==
  /\ pc = "parse" /\ row = end_data
  /\ num_gray > 0 /\ num_color > 0
  /\ Len(V_in_R) >= 1 /\ Len(V_in_Gray) >= 1
  /\ \E k \in 1..Len(lines) :
       /\ Parsed(k)
       /\ Len(lines[k].num) >= FieldsRequired(lines)
       /\ lines[k].num[ColumnOf(lines, "RGB_R")] < 0
       /\ lines[k].num[ColumnOf(lines, "RGB_G")] = 0
       /\ lines[k].num[ColumnOf(lines, "RGB_B")] = 0
  /\ Len(V_in_R) + Len(V_in_G) + Len(V_in_B) + Len(V_in_Gray) = row - begin_data - 1

\* C7: a file lacking one of the four marker lines, or one of the columns
\* RGB_R, RGB_G, RGB_B, XYZ_Y in its header, ends the run with the lookup's
\* ValueError, no table and no plot written; and a data row with fewer fields
\* than the largest required column index + 1 is passed over: no bucket
\* changes, no error, and the loop goes on to the next row.
C7_LookupFatal ==
  (pc # "read" /\ ~WellFormed(ti3))
    => /\ pc = "exited" /\ exit_code = "ValueError"
       /\ written = {} /\ ~plot
C7_ShortRowSkipped ==
  (AtRow /\ ~EnoughFields)
    => /\ UNCHANGED buckets
       /\ pc' = "parse" /\ exit_code' = "running" /\ row' = row + 1
C7_MalformedFile == [](C7_LookupFatal) /\ [][C7_ShortRowSkipped]_vars

\* a file whose header lacks only the luminance column ended the run with a
\* ValueError before any row was parsed
C7_Witness ==
  /\ pc = "exited" /\ exit_code = "ValueError"
  /\ lines = ti3
  /\ \A m \in AllMarkers : HasLine(ti3, m)
  /\ ~HasColumn(ti3, "XYZ_Y")
  /\ row = 0 /\ written = {} /\ ~plot

\* a run that passed over a short row and went on to save its plot
C7_WitnessSkipped ==
  /\ exit_code = "0" /\ plot
  /\ \E k \in 1..Len(lines) :
       Parsed(k) /\ Len(lines[k].num) < FieldsRequired(lines)
  /\ Len(V_in_Gray) >= 2

\* ---- the estimates and the table files
Defined(gamma) == gamma.kind # "None"
TablesDone == pc = "plot" \/ exit_code = "0"

\* C3: the RGB table file is written only when the Red, Green and Blue
\* estimates are all defined, and the Gray table file only when the Gray
\* estimate is.
C3_UndefinedSkipsTable ==
  /\ "gamma_table_RGB" \in written
       => (Defined(gamma_R) /\ Defined(gamma_G) /\ Defined(gamma_B))
  /\ "gamma_table_Gray" \in written => Defined(gamma_Gray)

\* color was requested, Red and Green have estimates, Blue has one sample and
\* no estimate, and the run ended without the RGB table
C3_Witness ==
  /\ exit_code = "0"
  /\ num_color > 0
  /\ gamma_R.kind = "num" /\ gamma_R.val[1] # 0
  /\ gamma_G.kind = "num" /\ gamma_G.val[1] # 0
  /\ Len(V_in_B) = 1 /\ ~Defined(gamma_B)
  /\ "gamma_table_RGB" \notin written

\* C4 (as stated): once the tables are generated, the Gray file is there
\* whenever the Gray estimate is defined, whatever its value, and the RGB file
\* whenever the three channel estimates are.
C4_AsStated ==
  TablesDone =>
    /\ Defined(gamma_Gray) => "gamma_table_Gray" \in written
    /\ (Defined(gamma_R) /\ Defined(gamma_G) /\ Defined(gamma_B))
         => "gamma_table_RGB" \in written

\* C10: a patch type that was not requested leaves its buckets empty, its
\* estimates undefined and its table unwritten, and the estimator is not
\* called for it, whatever rows the file holds.
C10_UnrequestedSilent ==
  /\ num_color = 0 =>
       /\ V_in_R = <<>> /\ V_in_G = <<>> /\ V_in_B = <<>>
       /\ L_R = <<>> /\ L_G = <<>> /\ L_B = <<>>
       /\ ~Defined(gamma_R) /\ ~Defined(gamma_G) /\ ~Defined(gamma_B)
       /\ called \cap {"R", "G", "B"} = {}
       /\ "gamma_table_RGB" \notin written
  /\ num_gray = 0 =>
       /\ V_in_Gray = <<>> /\ L_Gray = <<>>
       /\ ~Defined(gamma_Gray)
       /\ "Gray" \notin called
       /\ "gamma_table_Gray" \notin written

RowIs(k, r, g, b) ==
  /\ Len(lines[k].num) >= FieldsRequired(lines)
  /\ lines[k].num[ColumnOf(lines, "RGB_R")] = r
  /\ lines[k].num[ColumnOf(lines, "RGB_G")] = g
  /\ lines[k].num[ColumnOf(lines, "RGB_B")] = b
\* color was not requested, the file held red, green and blue rows, and the
\* run ended with the Gray table alone
C10_Witness ==
  /\ exit_code = "0"
  /\ num_color = 0
  /\ \E k \in 1..Len(lines) : Parsed(k) /\ RowIs(k, 100, 0, 0)
  /\ \E k \in 1..Len(lines) : Parsed(k) /\ RowIs(k, 50, 0, 0)
  /\ \E k \in 1..Len(lines) : Parsed(k) /\ RowIs(k, 0, 100, 0)
  /\ \E k \in 1..Len(lines) : Parsed(k) /\ RowIs(k, 0, 0, 100)
  /\ written = {"gamma_table_Gray"}

\* ---- the external tools
IsListing(i) == invoked[i].argv = ListCmd
Failed(i) == invoked[i].rc # 0
\* the run ended at once with exit code 1: nothing ran after command i, the
\* measurement file was not read, no table and no plot was written
FatalAt(i) ==
  /\ i = Len(invoked)
  /\ pc = "exited" /\ exit_code = "1"
  /\ lines = <<>>
  /\ written = {} /\ ~plot

\* C5 (as amended): a nonzero exit status of patch generation, display reset
\* or patch measurement ends the run at once with exit code 1: no later tool
\* runs, the command is not run again, the measurement file is not read and
\* nothing is written.  (The exit status of the display listing is not looked at.)
C5_ToolFailureFatal ==
  \A i \in 1..Len(invoked) : (Failed(i) /\ ~IsListing(i)) => FatalAt(i)

\* C5 (as stated): the same of every invocation, the display listing included.
C5_AsStated ==
  \A i \in 1..Len(invoked) : Failed(i) => FatalAt(i)

\* the measurement failed after the two tools before it succeeded
C5_Witness ==
  /\ Len(invoked) = 4
  /\ invoked[4].argv = DispreadCmd(display_number)
  /\ Failed(4) /\ ~Failed(2) /\ ~Failed(3)
  /\ exit_code = "1"

\* ---- the display listing
Blank(line, from, to) == \A j \in from..to : line[j] = " "
\* the line reads '<number> = <description>'
NamesDisplay(line) ==
  \E s, k, e, d \in 1..Len(line) :
    /\ s <= k /\ k < e /\ e < d
    /\ Blank(line, 1, s - 1)
    /\ \A j \in s..k : IsDigit(line[j])
    /\ Blank(line, k + 1, e - 1)
    /\ line[e] = "="
    /\ line[d] # " "
ListingDone == Len(invoked) >= 1

\* C6: when no line of the listing names a display, the run ends with exit
\* code 1 before any display is chosen or asked for, before the working
\* directory exists and before any other tool runs.
C6_NoDisplaysAborts ==
  (ListingDone /\ \A i \in 1..Len(listing) : ~NamesDisplay(listing[i]))
    => /\ pc = "exited" /\ exit_code = "1"
       /\ display_number = 0 /\ rejected = 0
       /\ ~output_dir
       /\ Len(invoked) = 1

\* the listing printed lines, some with a "=", none naming a display
C6_Witness ==
  /\ ListingDone
  /\ Len(listing) = 3
  /\ \E i \in 1..Len(listing) : \E j \in 1..Len(listing[i]) : listing[i][j] = "="
  /\ \A i \in 1..Len(listing) : ~NamesDisplay(listing[i])
  /\ exit_code = "1"

\* ---- the patch counts
CountsReturned == pc = "targen" \/ Len(invoked) >= 2
IsTargen(i) == invoked[i].argv[1][1] = "targen"
HasCountOption(argv) ==
  \E j \in 1..Len(argv) : argv[j][1] \in {"-g", "-s"} /\ argv[j][2] > 0

\* C8: the pair get_patch_counts returns has num_gray >= 0, num_color >= 0 and
\* not both zero, so targen is never run without a -g or a -s option.
C8_PatchCountsValid ==
  /\ CountsReturned => (num_gray >= 0 /\ num_color >= 0 /\ ~(num_gray = 0 /\ num_color = 0))
  /\ \A i \in 1..Len(invoked) : IsTargen(i) => HasCountOption(invoked[i].argv)

\* targen ran with -s alone after the prompts turned answers down
C8_Witness ==
  /\ Len(invoked) >= 2 /\ IsTargen(2)
  /\ rejected = MaxAttempts
  /\ num_gray = 0 /\ num_color > 0
  /\ \A j \in 1..Len(invoked[2].argv) : invoked[2].argv[j][1] # "-g"
====
